---- MODULE Spec2Model ----
(***************************************************************************)
(* Model of src/auto_checkin.py: the KurobbsClient check-in orchestrator   *)
(* and the main() entry point.                                             *)
(*                                                                         *)
(* Python values are modelled as follows.                                  *)
(*   - a str is a "text": a sequence of string pieces; concatenation is    *)
(*     \o, and the str is truthy iff some piece is non-empty.  The Chinese *)
(*     literals of the source are written as ASCII glosses (the definition *)
(*     of each names the source line of the literal).                      *)
(*   - Optional[bool] is one of "None", "True", "False".                   *)
(*   - a JSON payload is [t, items]: t is the Python type name, items the  *)
(*     elements when t = "list".  A list element is [t, d]: d is the dict  *)
(*     (a function from keys to values) when t = "dict".                   *)
(*   - a dict with insertion order (self.result) is a sequence of          *)
(*     [k, v] pairs.                                                       *)
(*   - a call returns [w, exc, ret]: the world after the call, the         *)
(*     exception that escapes it (type "none" when it returns) and the     *)
(*     returned value.  The world w is [self, trace]: the client object    *)
(*     and the ordered record of what the run did so far (actions          *)
(*     invoked, requests posted, log lines, exceptions raised).            *)
(***************************************************************************)
EXTENDS Integers, Sequences, FiniteSets, TLC

VARIABLES
    api,        \* the mocked upstream: url -> reply, fixed for the whole behaviour
    pc,         \* position of the caller / orchestrator
    self,       \* the KurobbsClient object: [token, result, exceptions]
    trace,      \* what the current run of start() did, in order
    escaped,    \* the exception that left start() in this run, type "none" if none
    notified,   \* messages handed to send_bark_notification by this process
    exitCode,   \* -1 while the process has not ended, else its exit status
    run,        \* number of runs of start() begun so far
    starts,     \* number of start() calls made on the current client object
    history     \* outcome of each run that reached _log: [msg, errors, fresh]

vars == <<api, pc, self, trace, escaped, notified, exitCode, run, starts, history>>

----------------------------------------------------------------------------
(* Bounds *)

MaxRuns == 2      \* runs of start() in one behaviour
MaxRoles == 2     \* length of the role list a lookup reply carries

Months == {1, 10, 12}           \* datetime.now(beijing_tz).month, sampled
Tokens == {"token-A", "token-B"}

----------------------------------------------------------------------------
(* Literals of the source *)

FIND_ROLE_LIST_API_URL == "https://api.kurobbs.com/user/role/findRoleList"
SIGN_URL == "https://api.kurobbs.com/encourage/signIn/v2"
USER_SIGN_URL == "https://api.kurobbs.com/user/signIn"

SUCCESS_CODE == 200
SYNTHETIC_CODE == 0 - 1
CHECKIN_GAME_ID == 3
DEFAULT_GAME_ID == 2
SIGN_GAME_ID == 2

API_FAILED_PREFIX == "API request failed: "
CODE_PREFIX == " (code: "
CODE_SUFFIX == ")"
NO_ROLE_FOUND == "no game role found, check binding"
CHECKIN_SUCCESS == "reward checkin success"
CHECKIN_FAILURE == "reward checkin failed"
SIGN_IN_SUCCESS == "community sign-in success"
SIGN_IN_FAILURE == "community sign-in failed"
TASK_FAILED == "check-in task failed!"
UNEXPECTED_PREFIX == "An unexpected error occurred: "
SEPARATOR == ", "
BANG == "!"

----------------------------------------------------------------------------
(* Python values *)

PyInt(n) == [t |-> "int", v |-> n]
PyNone == [t |-> "NoneType", v |-> 0]
PyStr(text) == [t |-> "str", v |-> text]

Digit(d) == <<"0", "1", "2", "3", "4", "5", "6", "7", "8", "9">>[d + 1]

RECURSIVE NatToStr(_)
NatToStr(n) == IF n < 10 THEN <<Digit(n)>>
               ELSE NatToStr(n \div 10) \o <<Digit(n % 10)>>

\* str(n) / f"{n}" of an int
IntToStr(n) == IF n < 0 THEN <<"-">> \o NatToStr(0 - n) ELSE NatToStr(n)

\* f"{n:02d}" of a non-negative int
Format02d(n) == IF n < 10 THEN <<"0">> \o NatToStr(n) ELSE NatToStr(n)

\* bool(s) of a str
StrTruthy(text) == \E i \in 1..Len(text) : text[i] # ""

\* bool(x) of an Optional[bool]
Truthy(b) == b = "True"

RECURSIVE Join(_, _)
\* sep.join(texts)
Join(texts, sep) ==
    IF Len(texts) = 0 THEN <<>>
    ELSE IF Len(texts) = 1 THEN texts[1]
    ELSE texts[1] \o <<sep>> \o Join(Tail(texts), sep)

\* d.get(k, default) of a dict
DictGet(d, k, default) == IF k \in DOMAIN d THEN d[k] ELSE default

\* d[k] = v of an insertion-ordered dict
DictSet(d, k, v) ==
    IF \E i \in 1..Len(d) : d[i].k = k
    THEN [i \in 1..Len(d) |-> IF d[i].k = k THEN [k |-> k, v |-> v] ELSE d[i]]
    ELSE Append(d, [k |-> k, v |-> v])

\* list(d.values())
DictValues(d) == [i \in 1..Len(d) |-> d[i].v]

DictKeys(d) == {d[i].k : i \in 1..Len(d)}

----------------------------------------------------------------------------
(* Call results *)

NoExc == [type |-> "none", text |-> <<>>]
Exc(type, text) == [type |-> type, text |-> text]

Return(w, ret) == [w |-> w, exc |-> NoExc, ret |-> ret]
Raise(w, type, text) == [w |-> w, exc |-> Exc(type, text), ret |-> PyNone]

Emit(w, event) == [w EXCEPT !.trace = Append(@, event)]

\* Response(code=..., msg=..., success=..., data=...)
Response(code, message, success, data) ==
    [code |-> code, msg |-> message, success |-> success, data |-> data]

NoData == [t |-> "NoneType", items |-> <<>>]

----------------------------------------------------------------------------
(* The mocked upstream *)

FullRole == [t |-> "dict",
             d |-> ("gameId" :> PyInt(3) @@ "serverId" :> PyInt(7)
                    @@ "roleId" :> PyInt(11) @@ "userId" :> PyInt(13))]
BareRole == [t |-> "dict", d |-> ("roleId" :> PyInt(21) @@ "userId" :> PyInt(23))]
NotADict == [t |-> "int", d |-> <<>>]

Items == {FullRole, BareRole, NotADict}

Lists == UNION {[1..n -> Items] : n \in 0..MaxRoles}

Payloads == {NoData, [t |-> "dict", items |-> <<>>]}
            \cup {[t |-> "list", items |-> l] : l \in Lists}

\* code and msg of the envelopes the mock serves
Statuses == {[code |-> 200, msg |-> <<"ok">>],
             [code |-> 500, msg |-> <<"system busy">>]}

Failures == {[kind |-> "decode_error", env |-> Response(0, <<>>, "None", NoData)],
             [kind |-> "transport_error", env |-> Response(0, <<>>, "None", NoData)]}

LookupReplies ==
    Failures \cup
    {[kind |-> "envelope", env |-> Response(s.code, s.msg, "None", p)] :
        s \in Statuses, p \in Payloads}

SignReplies ==
    Failures \cup
    {[kind |-> "envelope", env |-> Response(s.code, s.msg, b, NoData)] :
        s \in Statuses, b \in {"None", "True", "False"}}

----------------------------------------------------------------------------
(* KurobbsClient *)

__init__(token) == [token |-> token, result |-> <<>>, exceptions |-> <<>>]

\* get_headers leaving the token out
get_headers_no_token(client) ==
    ("osversion" :> "Android"
     @@ "devcode" :> "2fba3859fe9bfe9099f2696b8648c2c6"
     @@ "countrycode" :> "CN"
     @@ "ip" :> "10.0.2.233"
     @@ "model" :> "2211133C"
     @@ "source" :> "android"
     @@ "lang" :> "zh-Hans"
     @@ "version" :> "1.0.9"
     @@ "versioncode" :> "1090"
     @@ "content-type" :> "application/x-www-form-urlencoded; charset=utf-8"
     @@ "accept-encoding" :> "gzip"
     @@ "user-agent" :> "okhttp/3.10.0")

get_headers(client) ==
    ("osversion" :> "Android"
     @@ "devcode" :> "2fba3859fe9bfe9099f2696b8648c2c6"
     @@ "countrycode" :> "CN"
     @@ "ip" :> "10.0.2.233"
     @@ "model" :> "2211133C"
     @@ "source" :> "android"
     @@ "lang" :> "zh-Hans"
     @@ "version" :> "1.0.9"
     @@ "versioncode" :> "1090"
     @@ "token" :> client.token
     @@ "content-type" :> "application/x-www-form-urlencoded; charset=utf-8"
     @@ "accept-encoding" :> "gzip"
     @@ "user-agent" :> "okhttp/3.10.0")

\* res.model_dump_json(indent=2, exclude={"data"})
model_dump_json(res) ==
    <<"code: ">> \o IntToStr(res.code) \o <<" msg: ">> \o res.msg
        \o <<" success: ", res.success>>

\* make_request: what follows requests.post, for the reply the upstream gave
parse_response(w, reply) ==
    IF reply.kind = "transport_error"
    THEN Raise(Emit(w, [kind |-> "raise", type |-> "RequestException",
                        by |-> "make_request"]),
               "RequestException", <<"connection failed">>)
    ELSE IF reply.kind = "decode_error"
    THEN Raise(Emit(w, [kind |-> "raise", type |-> "ValidationError",
                        by |-> "make_request"]),
               "ValidationError", <<"invalid response body">>)
    ELSE Return(Emit(w, [kind |-> "log", level |-> "DEBUG",
                         text |-> model_dump_json(reply.env)]),
                reply.env)

make_request(w, url, data) ==
    parse_response(Emit(w, [kind |-> "post", url |-> url,
                            headers |-> get_headers(w.self), data |-> data]),
                   api[url])

\* get_user_game_list checking the payload before the code
role_list_of_payload_first(r) ==
    IF r.exc.type # "none" THEN r
    ELSE IF r.ret.data.t # "list" \/ Len(r.ret.data.items) = 0
    THEN Raise(r.w, "KurobbsClientException", <<NO_ROLE_FOUND>>)
    ELSE IF r.ret.code # SUCCESS_CODE
    THEN Raise(r.w, "KurobbsClientException",
               <<API_FAILED_PREFIX>> \o r.ret.msg \o <<CODE_PREFIX>>
                   \o IntToStr(r.ret.code) \o <<CODE_SUFFIX>>)
    ELSE Return(r.w, r.ret.data)

\* get_user_game_list: the checks on the envelope r.ret that make_request gave
role_list_of(r) ==
    IF r.exc.type # "none" THEN r
    ELSE IF r.ret.code # SUCCESS_CODE
    THEN Raise(r.w, "KurobbsClientException",
               <<API_FAILED_PREFIX>> \o r.ret.msg \o <<CODE_PREFIX>>
                   \o IntToStr(r.ret.code) \o <<CODE_SUFFIX>>)
    ELSE IF r.ret.data.t # "list" \/ Len(r.ret.data.items) = 0
    THEN Raise(r.w, "KurobbsClientException", <<NO_ROLE_FOUND>>)
    ELSE Return(r.w, r.ret.data)

\* get_user_game_list posting again when the first reply is rejected
get_user_game_list_retry(w, game_id) ==
    LET first == make_request(w, FIND_ROLE_LIST_API_URL,
                              ("gameId" :> PyInt(game_id)))
    IN  IF first.exc.type = "none" /\ first.ret.code # SUCCESS_CODE
        THEN role_list_of(make_request(first.w, FIND_ROLE_LIST_API_URL,
                                       ("gameId" :> PyInt(game_id))))
        ELSE role_list_of(first)

get_user_game_list(w, game_id) ==
    role_list_of(make_request(w, FIND_ROLE_LIST_API_URL,
                              ("gameId" :> PyInt(game_id))))

\* checkin: the form data built from first_role
reward_data(first_role, month) ==
    ("gameId" :> DictGet(first_role.d, "gameId", PyInt(DEFAULT_GAME_ID))
     @@ "serverId" :> DictGet(first_role.d, "serverId", PyNone)
     @@ "roleId" :> DictGet(first_role.d, "roleId", PyNone)
     @@ "userId" :> DictGet(first_role.d, "userId", PyNone)
     @@ "reqMonth" :> PyStr(Format02d(month)))

\* checkin whose except clause does not return: the reward request follows anyway
checkin_after_lookup_falls_through(g, month) ==
    IF g.exc.type = "KurobbsClientException"
    THEN make_request([g.w EXCEPT !.self.exceptions = Append(@, g.exc)], SIGN_URL,
                      reward_data([t |-> "dict", d |-> <<>>], month))
    ELSE IF g.exc.type # "none" THEN g
    ELSE IF g.ret.items[1].t # "dict"
    THEN Raise(g.w, "AttributeError", <<"object has no attribute 'get'">>)
    ELSE make_request(g.w, SIGN_URL, reward_data(g.ret.items[1], month))

\* checkin whose except clause does not record the lookup's error
checkin_after_lookup_unrecorded(g, month) ==
    IF g.exc.type = "KurobbsClientException"
    THEN Return(g.w, Response(SYNTHETIC_CODE, g.exc.text, "None", NoData))
    ELSE IF g.exc.type # "none" THEN g
    ELSE IF g.ret.items[1].t # "dict"
    THEN Raise(g.w, "AttributeError", <<"object has no attribute 'get'">>)
    ELSE make_request(g.w, SIGN_URL, reward_data(g.ret.items[1], month))

\* checkin taking the last role of the list
checkin_after_lookup_last_role(g, month) ==
    IF g.exc.type = "KurobbsClientException"
    THEN Return([g.w EXCEPT !.self.exceptions = Append(@, g.exc)],
                Response(SYNTHETIC_CODE, g.exc.text, "None", NoData))
    ELSE IF g.exc.type # "none" THEN g
    ELSE IF g.ret.items[1].t # "dict" \/ g.ret.items[Len(g.ret.items)].t # "dict"
    THEN Raise(g.w, "AttributeError", <<"object has no attribute 'get'">>)
    ELSE make_request(g.w, SIGN_URL,
                      reward_data(g.ret.items[Len(g.ret.items)], month))

\* checkin with a broad except clause: every exception of the lookup is recorded
checkin_after_lookup_catch_all(g, month) ==
    IF g.exc.type # "none"
    THEN Return([g.w EXCEPT !.self.exceptions = Append(@, g.exc)],
                Response(SYNTHETIC_CODE, g.exc.text, "None", NoData))
    ELSE IF g.ret.items[1].t # "dict"
    THEN Raise(g.w, "AttributeError", <<"object has no attribute 'get'">>)
    ELSE make_request(g.w, SIGN_URL, reward_data(g.ret.items[1], month))

\* checkin handling only the empty role list: a rejected lookup leaves checkin
checkin_after_lookup_empty_only(g, month) ==
    IF g.exc = Exc("KurobbsClientException", <<NO_ROLE_FOUND>>)
    THEN Return([g.w EXCEPT !.self.exceptions = Append(@, g.exc)],
                Response(SYNTHETIC_CODE, g.exc.text, "None", NoData))
    ELSE IF g.exc.type # "none" THEN g
    ELSE IF g.ret.items[1].t # "dict"
    THEN Raise(g.w, "AttributeError", <<"object has no attribute 'get'">>)
    ELSE make_request(g.w, SIGN_URL, reward_data(g.ret.items[1], month))

\* checkin without its except clause: the lookup's client error leaves checkin
checkin_after_lookup_uncaught(g, month) ==
    IF g.exc.type # "none" THEN g
    ELSE IF g.ret.items[1].t # "dict"
    THEN Raise(g.w, "AttributeError", <<"object has no attribute 'get'">>)
    ELSE make_request(g.w, SIGN_URL, reward_data(g.ret.items[1], month))

\* checkin: what follows the call g of get_user_game_list
checkin_after_lookup(g, month) ==
    IF g.exc.type = "KurobbsClientException"
    THEN Return([g.w EXCEPT !.self.exceptions = Append(@, g.exc)],
                Response(SYNTHETIC_CODE, g.exc.text, "None", NoData))
    ELSE IF g.exc.type # "none" THEN g
    ELSE IF Len(g.ret.items) = 0
    THEN Raise(Emit(g.w, [kind |-> "raise", type |-> "IndexError",
                          by |-> "checkin"]),
               "IndexError", <<"list index out of range">>)
    ELSE IF g.ret.items[1].t # "dict"
    THEN Raise(Emit(g.w, [kind |-> "raise", type |-> "AttributeError",
                          by |-> "checkin"]),
               "AttributeError", <<"object has no attribute 'get'">>)
    ELSE make_request(g.w, SIGN_URL, reward_data(g.ret.items[1], month))

checkin(w, month) ==
    checkin_after_lookup(get_user_game_list(w, CHECKIN_GAME_ID), month)

\* sign_in posting a second time when the first request raised
sign_in_retry(w) ==
    LET first == make_request(w, USER_SIGN_URL, ("gameId" :> PyInt(SIGN_GAME_ID)))
    IN  IF first.exc.type # "none"
        THEN make_request(first.w, USER_SIGN_URL, ("gameId" :> PyInt(SIGN_GAME_ID)))
        ELSE first

sign_in(w) == make_request(w, USER_SIGN_URL, ("gameId" :> PyInt(SIGN_GAME_ID)))

\* action_method(): the bound method handed to _process_sign_action
action_method(method, w, month) ==
    IF method = "checkin" THEN checkin(w, month) ELSE sign_in(w)

\* _process_sign_action asking for the success code as well as the flag
record_outcome_needs_code(r, action_name, success_message, failure_message) ==
    IF r.exc.type # "none" THEN r
    ELSE IF Truthy(r.ret.success) /\ r.ret.code = SUCCESS_CODE
    THEN Return([r.w EXCEPT !.self.result = DictSet(@, action_name, <<success_message>>)],
                PyNone)
    ELSE Return([r.w EXCEPT !.self.exceptions =
                    Append(@, Exc("KurobbsClientException", <<failure_message>>))],
                PyNone)

\* _process_sign_action dropping the failure instead of collecting it
record_outcome_drops_failure(r, action_name, success_message, failure_message) ==
    IF r.exc.type # "none" THEN r
    ELSE IF Truthy(r.ret.success)
    THEN Return([r.w EXCEPT !.self.result = DictSet(@, action_name, <<success_message>>)],
                PyNone)
    ELSE Return(r.w, PyNone)

\* _process_sign_action without its else: the failure is appended in any case
record_outcome_no_else(r, action_name, success_message, failure_message) ==
    IF r.exc.type # "none" THEN r
    ELSE Return([r.w EXCEPT
                    !.self.result = IF Truthy(r.ret.success)
                                    THEN DictSet(@, action_name, <<success_message>>)
                                    ELSE @,
                    !.self.exceptions =
                        Append(@, Exc("KurobbsClientException", <<failure_message>>))],
                PyNone)

\* _process_sign_action: what follows resp = action_method()
record_outcome(r, action_name, success_message, failure_message) ==
    IF r.exc.type # "none" THEN r
    ELSE IF Truthy(r.ret.success)
    THEN Return([r.w EXCEPT !.self.result = DictSet(@, action_name, <<success_message>>)],
                PyNone)
    ELSE Return([r.w EXCEPT !.self.exceptions =
                    Append(@, Exc("KurobbsClientException", <<failure_message>>))],
                PyNone)

_process_sign_action(w, action_name, method, month, success_message, failure_message) ==
    record_outcome(action_method(method,
                                 Emit(w, [kind |-> "invoke", name |-> action_name]),
                                 month),
                   action_name, success_message, failure_message)

\* msg joining with a bare comma
msg_bare_comma(client) == Join(DictValues(client.result), ",") \o <<BANG>>

\* the msg property
msg(client) == Join(DictValues(client.result), SEPARATOR) \o <<BANG>>

\* map(str, self.exceptions)
ErrorTexts(client) == [i \in 1..Len(client.exceptions) |-> client.exceptions[i].text]

\* _log logging the summary only when a success message was recorded
log_summary_nontrivial(w, m) ==
    IF Len(w.self.result) > 0
    THEN Emit(w, [kind |-> "log", level |-> "INFO", text |-> m])
    ELSE w

\* _log: the logger.info(msg) statement
log_summary(w, m) ==
    IF StrTruthy(m) THEN Emit(w, [kind |-> "log", level |-> "INFO", text |-> m])
    ELSE w

\* _log raising only when more than one error was collected
raise_collected_many(w) ==
    IF Len(w.self.exceptions) > 1
    THEN Raise(Emit(w, [kind |-> "raise", type |-> "KurobbsClientException",
                        by |-> "_log"]),
               "KurobbsClientException", Join(ErrorTexts(w.self), SEPARATOR))
    ELSE Return(w, PyNone)

\* _log: the raise statement
raise_collected(w) ==
    IF Len(w.self.exceptions) > 0
    THEN Raise(Emit(w, [kind |-> "raise", type |-> "KurobbsClientException",
                        by |-> "_log"]),
               "KurobbsClientException", Join(ErrorTexts(w.self), SEPARATOR))
    ELSE Return(w, PyNone)

_log(w) == raise_collected(log_summary(w, msg(w.self)))

----------------------------------------------------------------------------
(* The notifier: ext_bark.send_bark_notification(message) delivers the     *)
(* message out of band and returns nothing.                                *)

send_bark_notification(sent, message) == Append(sent, message)

----------------------------------------------------------------------------
(* State machine *)

World == [self |-> self, trace |-> trace]

\* the outcome a run leaves behind when it reaches _log
Outcome(w) == [msg |-> msg(w.self), errors |-> ErrorTexts(w.self),
               fresh |-> starts = 1]

Init ==
    /\ \E l \in LookupReplies, r \in SignReplies, s \in SignReplies :
           api = (FIND_ROLE_LIST_API_URL :> l @@ SIGN_URL :> r @@ USER_SIGN_URL :> s)
    /\ \E token \in Tokens : self = __init__(token)
    /\ pc = "Idle"
    /\ trace = <<>>
    /\ escaped = NoExc
    /\ notified = <<>>
    /\ exitCode = 0 - 1
    /\ run = 0
    /\ starts = 0
    /\ history = <<>>

\* main calls kurobbs.start() on the client it has just built
Start ==
    /\ pc = "Idle"
    /\ run < MaxRuns
    /\ pc' = "RunningCheckin"
    /\ run' = run + 1
    /\ starts' = starts + 1
    /\ trace' = <<>>
    /\ UNCHANGED <<api, self, escaped, notified, exitCode, history>>

\* a caller that kept the client calls start() on it again
StartAgain ==
    /\ pc \in {"Returned", "Raised", "Aborted"}
    /\ run < MaxRuns
    /\ pc' = "RunningCheckin"
    /\ run' = run + 1
    /\ starts' = starts + 1
    /\ trace' = <<>>
    /\ escaped' = NoExc
    /\ UNCHANGED <<api, self, notified, exitCode, history>>

\* start(): the first _process_sign_action call
ProcessCheckin ==
    /\ pc = "RunningCheckin"
    /\ \E month \in Months :
        LET r == _process_sign_action(World, "checkin", "checkin", month,
                                      CHECKIN_SUCCESS, CHECKIN_FAILURE)
        IN  /\ self' = r.w.self
            /\ trace' = r.w.trace
            /\ escaped' = r.exc
            /\ pc' = IF r.exc.type = "none" THEN "RunningSignIn" ELSE "Aborted"
    /\ UNCHANGED <<api, notified, exitCode, run, starts, history>>

\* start(): the second _process_sign_action call
ProcessSignIn ==
    /\ pc = "RunningSignIn"
    /\ \E month \in Months :
        LET r == _process_sign_action(World, "sign_in", "sign_in", month,
                                      SIGN_IN_SUCCESS, SIGN_IN_FAILURE)
        IN  /\ self' = r.w.self
            /\ trace' = r.w.trace
            /\ escaped' = r.exc
            /\ pc' = IF r.exc.type = "none" THEN "Reported" ELSE "Aborted"
    /\ UNCHANGED <<api, notified, exitCode, run, starts, history>>

\* start(): self._log()
Log ==
    /\ pc = "Reported"
    /\ LET r == _log(World)
       IN  /\ self' = r.w.self
           /\ trace' = r.w.trace
           /\ escaped' = r.exc
           /\ pc' = IF r.exc.type = "none" THEN "Returned" ELSE "Raised"
           /\ history' = Append(history, Outcome(r.w))
    /\ UNCHANGED <<api, notified, exitCode, run, starts>>

\* main: start() returned
MainReturn ==
    /\ pc = "Returned"
    /\ notified' = IF StrTruthy(msg(self))
                   THEN send_bark_notification(notified, msg(self))
                   ELSE notified
    /\ exitCode' = 0
    /\ pc' = "Exited"
    /\ UNCHANGED <<api, self, trace, escaped, run, starts, history>>

\* main with the broad except clause first: every exception counts as unexpected
MainExcept_broad_first ==
    /\ pc \in {"Raised", "Aborted"}
    /\ trace' = Append(trace, [kind |-> "log", level |-> "ERROR",
                               text |-> <<UNEXPECTED_PREFIX>> \o escaped.text])
    /\ notified' = notified
    /\ exitCode' = 1
    /\ pc' = "Exited"
    /\ UNCHANGED <<api, self, escaped, run, starts, history>>

\* main: the except clauses, tried in order
MainExcept ==
    /\ pc \in {"Raised", "Aborted"}
    /\ IF escaped.type = "KurobbsClientException"
       THEN /\ trace' = Append(trace, [kind |-> "log", level |-> "ERROR",
                                       text |-> escaped.text])
            /\ notified' = send_bark_notification(notified, <<TASK_FAILED>>)
            /\ exitCode' = 1
       ELSE /\ trace' = Append(trace, [kind |-> "log", level |-> "ERROR",
                                       text |-> <<UNEXPECTED_PREFIX>> \o escaped.text])
            /\ notified' = notified
            /\ exitCode' = 1
    /\ pc' = "Exited"
    /\ UNCHANGED <<api, self, escaped, run, starts, history>>

\* main() of a new process: a new client is built
main ==
    /\ pc = "Exited"
    /\ run < MaxRuns
    /\ \E token \in Tokens : self' = __init__(token)
    /\ pc' = "Idle"
    /\ trace' = <<>>
    /\ escaped' = NoExc
    /\ notified' = <<>>
    /\ exitCode' = 0 - 1
    /\ starts' = 0
    /\ UNCHANGED <<api, run, history>>

Next ==
    \/ Start
    \/ StartAgain
    \/ ProcessCheckin
    \/ ProcessSignIn
    \/ Log
    \/ MainReturn
    \/ MainExcept
    \/ main

Spec == Init /\ [][Next]_vars

TypeOK ==
    /\ pc \in {"Idle", "RunningCheckin", "RunningSignIn", "Reported",
               "Returned", "Raised", "Aborted", "Exited"}
    /\ run \in 0..MaxRuns
    /\ starts \in 0..MaxRuns
    /\ exitCode \in {0 - 1, 0, 1}
    /\ Len(history) <= run

----------------------------------------------------------------------------
(* Vocabulary of the properties *)

LookupReply == api[FIND_ROLE_LIST_API_URL]
RewardReply == api[SIGN_URL]
SignInReply == api[USER_SIGN_URL]

Invocations(name) ==
    Len(SelectSeq(trace, LAMBDA e : e.kind = "invoke" /\ e.name = name))
PostsTo(url) ==
    Len(SelectSeq(trace, LAMBDA e : e.kind = "post" /\ e.url = url))

\* the run of start() has ended, one way or another
RunEnded == pc \in {"Returned", "Raised", "Aborted", "Exited"}
\* the checkin step of the current run is over
CheckinStepOver == pc \in {"RunningSignIn", "Reported"} \/ RunEnded

\* the upstream answers the role lookup with a code other than 200
LookupRejected ==
    LookupReply.kind = "envelope" /\ LookupReply.env.code # 200
\* the upstream answers 200 with no payload, a payload that is no list, or []
NoRoleFound ==
    /\ LookupReply.kind = "envelope" /\ LookupReply.env.code = 200
    /\ (LookupReply.env.data.t # "list" \/ Len(LookupReply.env.data.items) = 0)
LookupFailed == LookupRejected \/ NoRoleFound
\* the upstream answers 200 with a list whose first element is a role
RoleFound ==
    /\ LookupReply.kind = "envelope" /\ LookupReply.env.code = 200
    /\ LookupReply.env.data.t = "list" /\ Len(LookupReply.env.data.items) > 0
    /\ LookupReply.env.data.items[1].t = "dict"
RewardGranted ==
    RoleFound /\ RewardReply.kind = "envelope" /\ RewardReply.env.success = "True"
RewardRefused ==
    RoleFound /\ RewardReply.kind = "envelope" /\ RewardReply.env.success # "True"
SignInGranted ==
    SignInReply.kind = "envelope" /\ SignInReply.env.success = "True"
SignInRefused ==
    SignInReply.kind = "envelope" /\ SignInReply.env.success # "True"

\* the three ways the claim lists for the reward check-in action to fail
CheckinFailure == LookupFailed \/ RewardRefused

IsClientError(e) == e.type = "KurobbsClientException"

----------------------------------------------------------------------------
(* C1: a failure of the reward check-in action (lookup rejected, no role,   *)
(* or reward envelope without a truthy success flag) never prevents the    *)
(* community sign-in from being invoked: the checkin step hands over to    *)
(* the sign-in step with no exception in flight, and once the run has      *)
(* ended sign_in has been invoked and its request posted.  A client error  *)
(* leaves start() only from _log.                                          *)
C1_FailureIsolated ==
    /\ (CheckinFailure /\ pc = "RunningSignIn") => escaped = NoExc
    /\ (CheckinFailure /\ CheckinStepOver /\ pc # "RunningSignIn") =>
           /\ Invocations("sign_in") = 1
           /\ PostsTo(USER_SIGN_URL) = 1
    /\ IsClientError(escaped) =>
           /\ pc \in {"Raised", "Exited"}
           /\ \E i \in 1..Len(trace) :
                  /\ trace[i].kind = "raise" /\ trace[i].by = "_log"
                  /\ \A j \in 1..Len(trace) :
                         trace[j].kind = "raise" => j = i

C1_Witness ==
    /\ LookupFailed
    /\ pc = "Raised"
    /\ PostsTo(USER_SIGN_URL) = 1
    /\ SignInGranted

(* C2: start() raises the aggregate error if and only if the error         *)
(* collection is non-empty when the Reported step is reached; a partial    *)
(* success raises it while the summary still holds the success message of  *)
(* the action that succeeded.                                              *)
C2_RaiseIffErrors ==
    [][/\ pc = "Reported" =>
            /\ (Len(self.exceptions) > 0) <=>
                   (pc' = "Raised" /\ IsClientError(escaped'))
            /\ (Len(self.exceptions) = 0) <=>
                   (pc' = "Returned" /\ escaped' = NoExc)
            /\ self' = self
            /\ (DictKeys(self.result) = {"checkin"} /\ SignInRefused) =>
                   /\ pc' = "Raised"
                   /\ msg(self') = <<CHECKIN_SUCCESS, BANG>>
            /\ (DictKeys(self.result) = {"sign_in"} /\ CheckinFailure) =>
                   /\ pc' = "Raised"
                   /\ msg(self') = <<SIGN_IN_SUCCESS, BANG>>
       /\ (IsClientError(escaped') /\ ~IsClientError(escaped)) => pc = "Reported"
      ]_vars

C2_Witness ==
    /\ pc = "Raised"
    /\ DictKeys(self.result) = {"checkin"}
    /\ ErrorTexts(self) = <<<<SIGN_IN_FAILURE>>>>
    /\ msg(self) = <<CHECKIN_SUCCESS, BANG>>
    /\ escaped = Exc("KurobbsClientException", <<SIGN_IN_FAILURE>>)

(* C3 as stated: the RunningCheckin step never aborts the run, whatever    *)
(* the upstream replies to the role lookup: when the lookup request got a  *)
(* reply, a run that ends before sign_in was invoked has at least posted   *)
(* the reward request.                                                     *)
C3_NoLookupReplyAborts ==
    (LookupReply.kind # "transport_error" /\ pc = "Aborted"
        /\ Invocations("sign_in") = 0) => PostsTo(SIGN_URL) = 1

\* the lookup reply makes an exception other than the client error leave checkin
LookupBreaks ==
    \/ LookupReply.kind # "envelope"
    \/ /\ LookupReply.env.code = 200
       /\ LookupReply.env.data.t = "list"
       /\ Len(LookupReply.env.data.items) > 0
       /\ LookupReply.env.data.items[1].t # "dict"

(* C3, amended: a failed lookup (the reply decodes to an envelope whose    *)
(* code is not 200, or whose payload is absent, no list or empty) never    *)
(* aborts the run: checkin() returns the synthetic envelope with           *)
(* code = -1 and no success flag and the run proceeds to RunningSignIn.    *)
(* A reply that cannot be decoded, a transport failure, or a list whose    *)
(* first element is no dict makes a non-client exception leave checkin()   *)
(* and ends the run before sign_in is invoked.                             *)
C3_FailedLookupConverted ==
    /\ (LookupFailed /\ pc = "RunningCheckin") =>
           \A month \in Months :
               /\ checkin(World, month).exc = NoExc
               /\ checkin(World, month).ret.code = 0 - 1
               /\ checkin(World, month).ret.success = "None"
    /\ (LookupFailed /\ CheckinStepOver) =>
           (pc = "RunningSignIn" \/ Invocations("sign_in") = 1)
    /\ (LookupBreaks /\ CheckinStepOver) =>
           /\ pc \in {"Aborted", "Exited"}
           /\ Invocations("sign_in") = 0
           /\ escaped # NoExc /\ ~IsClientError(escaped)

C3_Witness ==
    /\ LookupRejected
    /\ pc = "RunningSignIn"
    /\ escaped = NoExc
    /\ Len(self.exceptions) = 2

(* C4: the process outcome is a function of the run outcome.  (a) start()  *)
(* returned: the notifier was called exactly once, with the summary, and   *)
(* the exit status is 0.  (b) start() raised the aggregate error: the      *)
(* notifier was called exactly once, with the fixed failure text, and the  *)
(* exit status is 1.  (c) another exception left start(): exit status 1    *)
(* and the notifier was not called.  The notifier is never called twice.   *)
C4_ProcessOutcome ==
    /\ Len(notified) <= 1
    /\ pc # "Exited" => (notified = <<>> /\ exitCode = 0 - 1)
    /\ pc = "Exited" =>
           /\ escaped = NoExc =>
                  /\ Len(self.exceptions) = 0
                  /\ notified = <<msg(self)>>
                  /\ exitCode = 0
           /\ IsClientError(escaped) =>
                  /\ notified = << <<TASK_FAILED>> >>
                  /\ exitCode = 1
           /\ (escaped # NoExc /\ ~IsClientError(escaped)) =>
                  /\ notified = <<>>
                  /\ exitCode = 1

C4_Witness ==
    /\ pc = "Exited"
    /\ escaped = NoExc
    /\ exitCode = 0
    /\ notified = << <<CHECKIN_SUCCESS, SEPARATOR, SIGN_IN_SUCCESS, BANG>> >>

\* the action has a success message in self.result
HasSuccess(name) == name \in DictKeys(self.result)
\* the action has an error in self.exceptions: the sign-in failure is
\* sign_in's, the lookup errors and the reward failure are checkin's
HasError(name) ==
    \E i \in 1..Len(self.exceptions) :
        (self.exceptions[i].text = <<SIGN_IN_FAILURE>>) <=> (name = "sign_in")

\* the action invoked last in the current run
LastInvoked ==
    LET calls == SelectSeq(trace, LAMBDA e : e.kind = "invoke")
    IN  IF Len(calls) = 0 THEN "none" ELSE calls[Len(calls)].name

\* the action was invoked and returned its envelope to _process_sign_action
Completed(name) ==
    /\ Invocations(name) = 1
    /\ ~(name = LastInvoked /\ escaped # NoExc /\ ~IsClientError(escaped))

(* C5 as stated: after start() on a fresh client no action has both a      *)
(* success message and an error, and each action that was invoked has one  *)
(* of the two.                                                             *)
C5_InvokedHasOutcome ==
    starts = 1 =>
        \A name \in {"checkin", "sign_in"} :
            /\ ~(HasSuccess(name) /\ HasError(name))
            /\ (RunEnded /\ Invocations(name) = 1) =>
                   (HasSuccess(name) \/ HasError(name))

(* C5, amended: on a fresh client no action ever has both a success        *)
(* message and an error; each action that returned its envelope has        *)
(* exactly one of the two; an action that has not returned one (not yet    *)
(* invoked, or ended by an unexpected exception) has neither.              *)
C5_ExclusiveOutcome ==
    starts = 1 =>
        \A name \in {"checkin", "sign_in"} :
            /\ ~(HasSuccess(name) /\ HasError(name))
            /\ Completed(name) => (HasSuccess(name) \/ HasError(name))
            /\ ~Completed(name) => (~HasSuccess(name) /\ ~HasError(name))

C5_Witness ==
    /\ starts = 1
    /\ pc = "Raised"
    /\ HasSuccess("checkin") /\ ~HasError("checkin")
    /\ HasError("sign_in") /\ ~HasSuccess("sign_in")

(* C6: running start() twice against identical upstream replies yields, in *)
(* the second run, the same summary and the same collection of errors as   *)
(* in the first.                                                           *)
C6_RunsAgree ==
    \A i \in 1..(Len(history) - 1) :
        /\ history[i + 1].msg = history[i].msg
        /\ history[i + 1].errors = history[i].errors

\* what does hold: a run on a newly built client repeats the run before it
FreshRunsAgree ==
    \A i \in 1..(Len(history) - 1) :
        history[i + 1].fresh =>
            /\ history[i + 1].msg = history[1].msg
            /\ history[i + 1].errors = history[1].errors

ExpectedSummary(checkinOk, signInOk) ==
    IF checkinOk /\ signInOk
    THEN <<CHECKIN_SUCCESS, ", ", SIGN_IN_SUCCESS, "!">>
    ELSE IF checkinOk THEN <<CHECKIN_SUCCESS, "!">>
    ELSE IF signInOk THEN <<SIGN_IN_SUCCESS, "!">>
    ELSE <<"!">>

(* C8: the summary msg is the recorded success messages joined by ", " in  *)
(* execution order (checkin before sign_in) followed by "!": both messages *)
(* when both actions succeeded, the single message when one did, and the   *)
(* bare "!" when none did.                                                 *)
C8_Summary ==
    /\ msg(self) = ExpectedSummary(HasSuccess("checkin"), HasSuccess("sign_in"))
    /\ pc \in {"Reported", "Returned", "Raised"} =>
           msg(self) = ExpectedSummary(RewardGranted, SignInGranted)

C8_Witness ==
    /\ pc = "Returned"
    /\ RewardGranted /\ SignInGranted
    /\ msg(self) = <<CHECKIN_SUCCESS, ", ", SIGN_IN_SUCCESS, "!">>

UrlRank(url) ==
    IF url = FIND_ROLE_LIST_API_URL THEN 1
    ELSE IF url = SIGN_URL THEN 2
    ELSE IF url = USER_SIGN_URL THEN 3
    ELSE 0

\* the requests of the run, in the order they were posted
Posted(tr) == SelectSeq(tr, LAMBDA e : e.kind = "post")
\* the actions of the run, in the order they were invoked
Invoked(tr) == SelectSeq(tr, LAMBDA e : e.kind = "invoke")

\* each action invoked at most once, checkin first; each endpoint posted at
\* most once, in the order role lookup, reward check-in, community sign-in
InOrder(tr) ==
    /\ \A i, j \in 1..Len(Posted(tr)) :
           i < j => 0 < UrlRank(Posted(tr)[i].url)
                    /\ UrlRank(Posted(tr)[i].url) < UrlRank(Posted(tr)[j].url)
    /\ \A i \in 1..Len(Posted(tr)) : UrlRank(Posted(tr)[i].url) > 0
    /\ \A i \in 1..Len(Invoked(tr)) :
           Invoked(tr)[i].name = <<"checkin", "sign_in">>[i]
    /\ Len(Invoked(tr)) <= 2

(* C9: within one run the orchestrator only moves forward, Idle ->         *)
(* RunningCheckin -> RunningSignIn -> Reported, or out of the run; each    *)
(* action is invoked at most once, each endpoint is posted at most once,   *)
(* and the requests come in the order role lookup, reward check-in,        *)
(* community sign-in.                                                      *)
C9_ForwardOnly ==
    [][/\ run' = run =>
            <<pc, pc'>> \in {<<"RunningCheckin", "RunningSignIn">>,
                             <<"RunningCheckin", "Aborted">>,
                             <<"RunningSignIn", "Reported">>,
                             <<"RunningSignIn", "Aborted">>,
                             <<"Reported", "Returned">>,
                             <<"Reported", "Raised">>,
                             <<"Returned", "Exited">>,
                             <<"Raised", "Exited">>,
                             <<"Aborted", "Exited">>,
                             <<"Exited", "Idle">>}
       /\ run' # run => (pc' = "RunningCheckin" /\ trace' = <<>>)
       /\ InOrder(trace')
      ]_vars

C9_Witness ==
    /\ pc = "Reported"
    /\ Len(Posted(trace)) = 3
    /\ Posted(trace)[1].url = FIND_ROLE_LIST_API_URL
    /\ Posted(trace)[2].url = SIGN_URL
    /\ Posted(trace)[3].url = USER_SIGN_URL

\* the places of the run where _log raised the aggregate error
AggregateRaises ==
    {i \in 1..Len(trace) : trace[i].kind = "raise" /\ trace[i].by = "_log"}

(* C10: the aggregate error is raised at most once per run, and whenever   *)
(* it is raised the summary was emitted as an informational log line       *)
(* earlier in the same run.                                                *)
C10_LogBeforeRaise ==
    /\ Cardinality(AggregateRaises) <= 1
    /\ \A j \in AggregateRaises :
           \E i \in 1..(j - 1) :
               /\ trace[i].kind = "log"
               /\ trace[i].level = "INFO"
               /\ trace[i].text = msg(self)
    /\ (pc = "Raised") => AggregateRaises # {}

C10_Witness ==
    /\ pc = "Raised"
    /\ msg(self) = <<"!">>
    /\ AggregateRaises = {Len(trace)}
    /\ trace[Len(trace) - 1] = [kind |-> "log", level |-> "INFO", text |-> <<"!">>]

\* the request to url was posted in the current run and its body did not decode
DecodeFailedAt(url) == api[url].kind = "decode_error" /\ PostsTo(url) >= 1

\* the action on whose behalf the request to url is posted
ActionOf(url) == IF url = USER_SIGN_URL THEN "sign_in" ELSE "checkin"

(* C11: a response body that does not decode, on any of the three          *)
(* requests, ends the run at once as an unexpected error: the request is   *)
(* not posted again, it is the last request of the run, nothing is added   *)
(* to the error collection for it, and no aggregate error is raised.       *)
C11_DecodeErrorEndsRun ==
    \A url \in {FIND_ROLE_LIST_API_URL, SIGN_URL, USER_SIGN_URL} :
        DecodeFailedAt(url) =>
            /\ pc \in {"Aborted", "Exited"}
            /\ escaped.type = "ValidationError"
            /\ PostsTo(url) = 1
            /\ Posted(trace)[Len(Posted(trace))].url = url
            /\ AggregateRaises = {}
            /\ \A i \in 1..Len(self.exceptions) : IsClientError(self.exceptions[i])
            /\ starts = 1 =>
                   /\ ~HasError(ActionOf(url)) /\ ~HasSuccess(ActionOf(url))
                   /\ Len(self.exceptions) =
                          IF url = USER_SIGN_URL /\ CheckinFailure
                          THEN (IF LookupFailed THEN 2 ELSE 1)
                          ELSE 0
            /\ pc = "Exited" => (exitCode = 1 /\ notified = <<>>)

C11_Witness ==
    /\ DecodeFailedAt(USER_SIGN_URL)
    /\ LookupFailed
    /\ pc = "Aborted"
    /\ Len(self.exceptions) = 2
    /\ Len(Posted(trace)) = 2

\* the requests a call posted, given the world it returned
PostsOf(r) == Len(Posted(r.w.trace))

(* C12 as stated: each of get_user_game_list, checkin and sign_in posts    *)
(* exactly one request per invocation.                                     *)
C12_OnePostEach ==
    pc = "RunningCheckin" =>
        /\ PostsOf(get_user_game_list(World, CHECKIN_GAME_ID)) = 1
        /\ \A month \in Months : PostsOf(checkin(World, month)) = 1
        /\ PostsOf(sign_in(World)) = 1

(* C12, amended: get_user_game_list and sign_in post exactly one request   *)
(* per invocation.  checkin posts the role lookup and then, only when the  *)
(* lookup gave a list whose first element is a role, the reward request:   *)
(* two requests in that case, one otherwise.                               *)
C12_PostsPerOperation ==
    /\ pc = "RunningCheckin" =>
           /\ PostsOf(get_user_game_list(World, CHECKIN_GAME_ID)) = 1
           /\ \A month \in Months :
                  PostsOf(checkin(World, month)) = IF RoleFound THEN 2 ELSE 1
           /\ PostsOf(sign_in(World)) = 1
    /\ CheckinStepOver =>
           /\ PostsTo(FIND_ROLE_LIST_API_URL) = 1
           /\ PostsTo(SIGN_URL) = IF RoleFound THEN 1 ELSE 0
    /\ Invocations("sign_in") = 1 => PostsTo(USER_SIGN_URL) = 1
    /\ Invocations("sign_in") = 0 => PostsTo(USER_SIGN_URL) = 0

C12_Witness ==
    /\ pc = "Reported"
    /\ RoleFound
    /\ PostsTo(FIND_ROLE_LIST_API_URL) = 1
    /\ PostsTo(SIGN_URL) = 1
    /\ PostsTo(USER_SIGN_URL) = 1

HeaderKeys ==
    {"osversion", "devcode", "countrycode", "ip", "model", "source", "lang",
     "version", "versioncode", "token", "content-type", "accept-encoding",
     "user-agent"}

\* every request of the run carries the 13 keys, the same values in each request,
\* and the given token
HeadersFixed(tr, token) ==
    \A i \in 1..Len(Posted(tr)) :
        /\ DOMAIN Posted(tr)[i].headers = HeaderKeys
        /\ Cardinality(DOMAIN Posted(tr)[i].headers) = 13
        /\ Posted(tr)[i].headers["token"] = token
        /\ Posted(tr)[i].headers = Posted(tr)[1].headers

(* C13: the credential is never modified after construction, and every     *)
(* request of a run carries the same fixed set of 13 header keys with the  *)
(* token header equal to the token the client was built with.              *)
C13_HeaderContract ==
    [][/\ pc' # "Idle" => self'.token = self.token
       /\ HeadersFixed(trace', self'.token)
      ]_vars

C13_Witness ==
    /\ pc = "Reported"
    /\ self.token = "token-B"
    /\ Len(Posted(trace)) = 3
    /\ \A i \in 1..3 : Posted(trace)[i].headers["token"] = "token-B"

(* C14: the reward check-in request is posted in a run only after the role *)
(* lookup of that run came back with code 200 and a non-empty list; when   *)
(* the lookup fails, checkin() returns the synthetic code = -1 envelope    *)
(* and no reward request is posted.                                        *)
C14_RewardAfterLookup ==
    /\ PostsTo(SIGN_URL) >= 1 =>
           /\ LookupReply.kind = "envelope"
           /\ LookupReply.env.code = 200
           /\ LookupReply.env.data.t = "list"
           /\ Len(LookupReply.env.data.items) >= 1
           /\ Posted(trace)[1].url = FIND_ROLE_LIST_API_URL
           /\ Posted(trace)[2].url = SIGN_URL
    /\ (LookupFailed /\ CheckinStepOver) =>
           /\ PostsTo(FIND_ROLE_LIST_API_URL) = 1
           /\ PostsTo(SIGN_URL) = 0
    /\ (LookupFailed /\ pc = "RunningCheckin") =>
           \A month \in Months :
               /\ checkin(World, month).exc = NoExc
               /\ checkin(World, month).ret.code = 0 - 1
               /\ \A i \in 1..PostsOf(checkin(World, month)) :
                      Posted(checkin(World, month).w.trace)[i].url # SIGN_URL

C14_Witness ==
    /\ LookupFailed
    /\ pc = "Reported"
    /\ PostsTo(SIGN_URL) = 0
    /\ PostsTo(USER_SIGN_URL) = 1

\* str(e) of the client error a failed lookup raises
LookupErrorText ==
    IF LookupRejected
    THEN <<API_FAILED_PREFIX>> \o LookupReply.env.msg \o <<CODE_PREFIX>>
             \o IntToStr(LookupReply.env.code) \o <<CODE_SUFFIX>>
    ELSE <<NO_ROLE_FOUND>>

(* C15: when the role lookup fails, the checkin step appends to the error  *)
(* collection the lookup's own error followed by the "reward checkin       *)
(* failed" error and records no success message for "checkin"; the         *)
(* aggregate error message is the ", "-join of the collected errors in the *)
(* order they were collected: on a fresh client the lookup error, "reward  *)
(* checkin failed", then the sign-in failure if there is one.              *)
C15_LookupFailureRecorded ==
    [][/\ (pc = "RunningCheckin" /\ LookupFailed) =>
              /\ self'.exceptions = self.exceptions
                     \o <<Exc("KurobbsClientException", LookupErrorText),
                          Exc("KurobbsClientException", <<CHECKIN_FAILURE>>)>>
              /\ self'.result = self.result
              /\ pc' = "RunningSignIn"
       /\ (pc = "Reported" /\ LookupFailed) =>
              /\ pc' = "Raised"
              /\ "checkin" \notin DictKeys(self'.result)
              /\ starts = 1 =>
                     escaped'.text =
                         LookupErrorText \o <<", ", CHECKIN_FAILURE>>
                             \o (IF SignInRefused THEN <<", ", SIGN_IN_FAILURE>>
                                 ELSE <<>>)
      ]_vars

C15_Witness ==
    /\ pc = "Raised"
    /\ starts = 1
    /\ NoRoleFound
    /\ escaped.text =
           <<NO_ROLE_FOUND, ", ", CHECKIN_FAILURE, ", ", SIGN_IN_FAILURE>>

\* the form data the claim expects for the role at the head of the list
ExpectedRewardFields(role) ==
    IF role = FullRole
    THEN [gameId |-> PyInt(3), serverId |-> PyInt(7),
          roleId |-> PyInt(11), userId |-> PyInt(13)]
    ELSE [gameId |-> PyInt(2), serverId |-> PyNone,
          roleId |-> PyInt(21), userId |-> PyInt(23)]

(* C16: for every role list of length >= 1 the lookup returns, checkin()   *)
(* builds the reward request from the element at index 0 alone: its        *)
(* serverId, roleId and userId, and its gameId or 2 when it has none,      *)
(* whatever the later elements are.                                        *)
C16_FirstRoleUsed ==
    (RoleFound /\ CheckinStepOver) =>
        /\ Len(Posted(trace)) >= 2
        /\ Posted(trace)[2].url = SIGN_URL
        /\ [k \in {"gameId", "serverId", "roleId", "userId"} |->
               Posted(trace)[2].data[k]]
           = ExpectedRewardFields(LookupReply.env.data.items[1])
        /\ DOMAIN Posted(trace)[2].data =
               {"gameId", "serverId", "roleId", "userId", "reqMonth"}

C16_Witness ==
    /\ pc = "RunningSignIn"
    /\ RoleFound
    /\ LookupReply.env.data.items = <<BareRole, FullRole>>
    /\ Posted(trace)[2].data["gameId"] = PyInt(2)
    /\ Posted(trace)[2].data["roleId"] = PyInt(21)

\* the envelope the action's own request came back with, when it did
Answered(name) ==
    IF name = "sign_in"
    THEN Invocations("sign_in") = 1 /\ SignInReply.kind = "envelope"
    ELSE CheckinStepOver /\ RoleFound /\ RewardReply.kind = "envelope"
AnswerOf(name) == IF name = "sign_in" THEN SignInReply.env ELSE RewardReply.env

\* the failure error of the action is in the error collection
HasFailure(name) ==
    \E i \in 1..Len(self.exceptions) :
        self.exceptions[i].text =
            <<IF name = "sign_in" THEN SIGN_IN_FAILURE ELSE CHECKIN_FAILURE>>

(* C17: for both actions the decision depends on the truthiness of the     *)
(* success flag of the returned envelope alone: a truthy flag records the  *)
(* success message whatever the code is, an absent or false flag appends   *)
(* the failure error even when the code is 200.                            *)
C17_FlagDecides ==
    \A name \in {"checkin", "sign_in"} :
        Answered(name) =>
            /\ HasSuccess(name) <=> (AnswerOf(name).success = "True")
            /\ HasFailure(name) <=> (AnswerOf(name).success \in {"None", "False"})

C17_Witness ==
    /\ pc = "Reported"
    /\ RoleFound
    /\ RewardReply.kind = "envelope"
    /\ RewardReply.env.code = 500 /\ RewardReply.env.success = "True"
    /\ SignInReply.kind = "envelope"
    /\ SignInReply.env.code = 200 /\ SignInReply.env.success = "None"
    /\ HasSuccess("checkin") /\ HasFailure("sign_in") /\ ~HasSuccess("sign_in")

\* the summary lines of the run, as places in the trace
SummaryLines ==
    {i \in 1..Len(trace) : trace[i].kind = "log" /\ trace[i].level = "INFO"}

(* C18: the summary is logged only when at least one success message was   *)
(* recorded; in a run where no action succeeded no summary line is logged  *)
(* before the aggregate error is raised.                                   *)
C18_OnlyNontrivialLogged ==
    /\ SummaryLines # {} => Len(self.result) > 0
    /\ (pc = "Raised" /\ Len(self.result) = 0) => SummaryLines = {}

(* C19: on a fresh client start() returns without raising exactly when     *)
(* both actions recorded a success message; hence every summary that main  *)
(* hands to the notifier holds both success messages and is never the bare *)
(* "!".                                                                    *)
C19_ReturnsIffBothSucceeded ==
    /\ (starts = 1 /\ pc = "Returned") =>
           /\ DictKeys(self.result) = {"checkin", "sign_in"}
           /\ RewardGranted /\ SignInGranted
    /\ (starts = 1 /\ pc = "Raised") =>
           /\ DictKeys(self.result) # {"checkin", "sign_in"}
           /\ ~(RewardGranted /\ SignInGranted)
    /\ (starts = 1 /\ pc \in {"Returned", "Raised"}) =>
           ((pc = "Returned") <=> (RewardGranted /\ SignInGranted))
    /\ \A i \in 1..Len(notified) :
           notified[i] \in {<<TASK_FAILED>>,
                            <<CHECKIN_SUCCESS, ", ", SIGN_IN_SUCCESS, "!">>}
    /\ (pc = "Exited" /\ escaped = NoExc) =>
           notified = << <<CHECKIN_SUCCESS, ", ", SIGN_IN_SUCCESS, "!">> >>

C19_Witness ==
    /\ starts = 1
    /\ pc = "Exited"
    /\ escaped = NoExc
    /\ notified = << <<CHECKIN_SUCCESS, ", ", SIGN_IN_SUCCESS, "!">> >>
    /\ DictKeys(self.result) = {"checkin", "sign_in"}

====
